---- MODULE Spec2Model ----
(***************************************************************************)
(* Event registration engine of django_jointoit: the register, unregister  *)
(* and attendees actions of EventViewSet (src/events/views.py) and its     *)
(* create, update and destroy calls, over the Event and EventRegistration  *)
(* tables (src/events/models.py), with the notification tasks they enqueue *)
(* (src/events/tasks.py).                                                  *)
(*                                                                         *)
(* Every request handler runs in its own worker with the database in       *)
(* autocommit mode, so each ORM query is one atomic step and the steps of  *)
(* concurrent handlers interleave.                                         *)
(***************************************************************************)
EXTENDS Integers, Sequences, FiniteSets, TLC

\* ------------------------------------------------------------------ bounds
MaxUsers  == 2      \* authenticated users 1..MaxUsers
MaxEvents == 1      \* events 1..MaxEvents
MaxProcs  == 2      \* request handlers running concurrently
MaxTime   == 2      \* the clock runs 1..MaxTime
MaxCap    == 1      \* largest max_attendees drawn
MaxQueue  == 1      \* new requests are accepted while the task queue is shorter
MaxHist   == 4      \* calls recorded by the sequential specification
MaxCreated == 1     \* events created through the API
MaxRaceCalls == 2   \* calls made in the specification of racing calls

\* ------------------------------------------------------------- constants
None == -1                  \* Python None / SQL NULL
AnonymousUser == 0          \* request.user of an unauthenticated request

HTTP_200_OK == 200
HTTP_201_CREATED == 201
HTTP_204_NO_CONTENT == 204
HTTP_400_BAD_REQUEST == 400
HTTP_401_UNAUTHORIZED == 401
HTTP_403_FORBIDDEN == 403
HTTP_404_NOT_FOUND == 404
HTTP_500_INTERNAL_SERVER_ERROR == 500   \* an exception leaving the view

EventPast         == "Cannot register for past events."
EventInactive     == "This event is not active."
EventFull         == "This event is full."
AlreadyRegistered == "You are already registered for this event."
NotRegistered     == "You are not registered for this event."
Unregistered      == "Successfully unregistered from the event."
OnlyOrganizer     == "Only the organizer can view attendees."
NotAuthenticated  == "Authentication required"
NotFound          == "Event not found"
ServerError       == "Server Error (500)"
TaskSent          == "email sent to"
TaskNotFound      == "Registration with id not found"
TaskError         == "Error sending email"
PermissionDenied  == "You do not have permission to perform this action."
DateInPast        == "Event date cannot be in the past."
DateRequired      == "date: This field is required."
MinValue          == "Ensure this value is greater than or equal to 1."
NoDetail          == ""

Users    == 1..MaxUsers
Callers  == Users \cup {AnonymousUser}
EventIds == 1..MaxEvents
PKs      == 1..(MaxEvents + 1)       \* the last pk names no event
Procs    == 1..MaxProcs
Ops      == {"register", "unregister", "attendees"}
AllPKs   == 1..(MaxEvents + MaxCreated)    \* every pk an event can get

VARIABLES
    now,        \* timezone.now()
    events,     \* the Event table: pk -> row
    regs,       \* the EventRegistration table: a set of rows
    nextId,     \* the AutoField sequence of EventRegistration
    queue,      \* the Celery queue: tasks enqueued by .delay()
    req,        \* per worker: the request it serves and the handler's locals
    out,        \* what the last step answered: an HTTP response or a task's
                \* return value, NoOut after a step that answers nothing
    hist,       \* the calls answered so far (sequential specification only)
    nextEventId \* the AutoField sequence of Event

vars == <<now, events, regs, nextId, queue, req, out, hist, nextEventId>>

\* ---------------------------------------------------------------- models
NoEvent == [organizer |-> None, date |-> None, max_attendees |-> None,
            is_active |-> FALSE]

NoRow == [id |-> None, user |-> None, event |-> None, registered_at |-> None,
          is_cancelled |-> FALSE, cancelled_at |-> None]

\* Event.is_past
is_past_reversed(ev) == ev.date > now
is_past(ev) == ev.date < now

\* Event.attendees_count
attendees_count_with_cancelled(pk) ==
    Cardinality({r \in regs : r.event = pk})
attendees_count(pk) ==
    Cardinality({r \in regs : r.event = pk /\ r.is_cancelled = FALSE})

\* Python truthiness of an optional integer: None and 0 are falsy
Truthy(x) == x # None /\ x # 0

\* Event.available_spots
available_spots_unclamped(pk) ==
    IF Truthy(events[pk].max_attendees)
    THEN events[pk].max_attendees - attendees_count(pk)
    ELSE None
available_spots(pk) ==
    IF Truthy(events[pk].max_attendees)
    THEN LET d == events[pk].max_attendees - attendees_count(pk)
         IN  IF d > 0 THEN d ELSE 0
    ELSE None

\* EventRegistration.Meta.unique_together: would a new (user, event) row clash
unique_together_off(u, pk) == FALSE
unique_together(u, pk) == \E r \in regs : r.user = u /\ r.event = pk

\* EventRegistration.event: the foreign key holds while the event exists
foreign_key(pk) == pk \in DOMAIN events

\* EventRegistration.objects.filter(user=..., event=...)
RowsOf(u, pk) == {r \in regs : r.user = u /\ r.event = pk}

\* Model.save() of a loaded instance: UPDATE ... WHERE id = row.id
save_insert(row) == regs \cup {row}
save(row) == {r \in regs : r.id # row.id} \cup {row}

\* save() of an instance whose row is gone falls back to an INSERT, which the
\* foreign key refuses with IntegrityError when the event is gone as well
save_raises(row) == (\A r \in regs : r.id # row.id) /\ ~foreign_key(row.event)

\* ------------------------------------------------------------- responses
\* request.data of a call without a body
NoBody == [x \in {} |-> None]

Response(p, status, detail, data) ==
    [proc |-> p, op |-> req[p].op, user |-> req[p].user, pk |-> req[p].pk,
     status |-> status, detail |-> detail, data |-> data, body |-> NoBody]

NoOut == [proc |-> 0, op |-> "none", user |-> AnonymousUser, pk |-> None,
          status |-> None, detail |-> NoDetail, data |-> {}, body |-> NoBody]

Idle == [pc |-> "idle", op |-> "none", user |-> AnonymousUser, pk |-> None,
         event |-> NoEvent, registration |-> NoRow, created |-> FALSE]

\* the handler returns (or raises): the worker is free again
Respond(p, status, detail, data) ==
    /\ req' = [req EXCEPT ![p] = Idle]
    /\ out' = Response(p, status, detail, data)

Goto(p, pc) ==
    /\ req' = [req EXCEPT ![p].pc = pc]
    /\ out' = NoOut

\* ------------------------------------------------------------ dispatch
\* A request reaches the first free worker. DRF checks IsAuthenticated before
\* the handler runs (get_permissions), then the handler's get_object() loads
\* the event or raises Http404.
Request_unauthenticated(p, op, u, pk) ==
    /\ req[p].pc = "idle"
    /\ \A q \in Procs : q < p => req[q].pc # "idle"
    /\ Len(queue) < MaxQueue
    /\ LET r0 == [Idle EXCEPT !.op = op, !.user = u, !.pk = pk]
       IN  IF pk \notin DOMAIN events
           THEN /\ req' = req
                /\ out' = [proc |-> p, op |-> op, user |-> u, pk |-> pk,
                           status |-> HTTP_404_NOT_FOUND, detail |-> NotFound,
                           data |-> {}, body |-> NoBody]
           ELSE /\ req' = [req EXCEPT ![p] = [r0 EXCEPT
                              !.pc = op, !.event = events[pk]]]
                /\ out' = NoOut
    /\ UNCHANGED <<now, events, regs, nextId, queue>>
Request(p, op, u, pk) ==
    /\ req[p].pc = "idle"
    /\ \A q \in Procs : q < p => req[q].pc # "idle"
    /\ Len(queue) < MaxQueue
    /\ LET r0 == [Idle EXCEPT !.op = op, !.user = u, !.pk = pk]
           answer(status, detail) ==
               /\ req' = req
               /\ out' = [proc |-> p, op |-> op, user |-> u, pk |-> pk,
                          status |-> status, detail |-> detail, data |-> {},
                          body |-> NoBody]
       IN  IF u = AnonymousUser
           THEN answer(HTTP_401_UNAUTHORIZED, NotAuthenticated)
           ELSE IF pk \notin DOMAIN events
           THEN answer(HTTP_404_NOT_FOUND, NotFound)
           ELSE /\ req' = [req EXCEPT ![p] = [r0 EXCEPT
                              !.pc = op, !.event = events[pk]]]
                /\ out' = NoOut
    /\ UNCHANGED <<now, events, regs, nextId, queue>>

\* ------------------------------------------------------------- register
\* The precondition checks of register, in the order of the code: the detail
\* of the first one that fails, NoDetail when all pass. The event fields are
\* those get_object() loaded; attendees_count is a fresh COUNT query.
register_precondition_full_first(ev, pk) ==
    IF is_past(ev) THEN EventPast
    ELSE IF Truthy(ev.max_attendees) /\ attendees_count(pk) >= ev.max_attendees
         THEN EventFull
    ELSE IF ~ev.is_active THEN EventInactive
    ELSE NoDetail
register_precondition_above(ev, pk) ==
    IF is_past(ev) THEN EventPast
    ELSE IF ~ev.is_active THEN EventInactive
    ELSE IF Truthy(ev.max_attendees) /\ attendees_count(pk) > ev.max_attendees
         THEN EventFull
    ELSE NoDetail
register_precondition_no_capacity(ev, pk) ==
    IF is_past(ev) THEN EventPast
    ELSE IF ~ev.is_active THEN EventInactive
    ELSE NoDetail
register_precondition(ev, pk) ==
    IF is_past(ev) THEN EventPast
    ELSE IF ~ev.is_active THEN EventInactive
    ELSE IF Truthy(ev.max_attendees) /\ attendees_count(pk) >= ev.max_attendees
         THEN EventFull
    ELSE NoDetail

register_check(p) ==
    /\ req[p].pc = "register"
    /\ LET d == register_precondition(req[p].event, req[p].pk)
       IN  IF d # NoDetail
           THEN Respond(p, HTTP_400_BAD_REQUEST, d, {})
           ELSE Goto(p, "get_or_create")
    /\ UNCHANGED <<now, events, regs, nextId, queue>>

\* What register does with the row get_or_create returned with created=False:
\* an active row is refused, a cancelled one goes on to be reactivated.
Existing_reactivates(p, row) ==
    /\ req' = [req EXCEPT ![p].pc = "reactivate",
                          ![p].registration = row,
                          ![p].created = FALSE]
    /\ out' = NoOut
Existing(p, row) ==
    IF ~row.is_cancelled
    THEN Respond(p, HTTP_400_BAD_REQUEST, AlreadyRegistered, {})
    ELSE /\ req' = [req EXCEPT ![p].pc = "reactivate",
                               ![p].registration = row,
                               ![p].created = FALSE]
         /\ out' = NoOut

\* A lookup that must return one row found none, or more than one
\* (DoesNotExist after an IntegrityError, MultipleObjectsReturned).
Raise(p) == Respond(p, HTTP_500_INTERNAL_SERVER_ERROR, ServerError, {})

\* get_or_create, first query: self.get(user=..., event=...)
get_or_create_get(p) ==
    /\ req[p].pc = "get_or_create"
    /\ LET rows == RowsOf(req[p].user, req[p].pk)
       IN  IF rows = {} THEN Goto(p, "create")
           ELSE IF Cardinality(rows) > 1 THEN Raise(p)
           ELSE Existing(p, CHOOSE r \in rows : TRUE)
    /\ UNCHANGED <<now, events, regs, nextId, queue>>

\* The row register inserts: defaults={'is_cancelled': False},
\* registered_at auto_now_add, cancelled_at null.
new_registration_cancelled(u, pk) ==
    [id |-> nextId, user |-> u, event |-> pk, registered_at |-> now,
     is_cancelled |-> TRUE, cancelled_at |-> now]
new_registration(u, pk) ==
    [id |-> nextId, user |-> u, event |-> pk, registered_at |-> now,
     is_cancelled |-> FALSE, cancelled_at |-> None]

\* get_or_create, second query: the INSERT. The unique constraint on
\* (user, event) refuses it with IntegrityError when a row is there by now,
\* the foreign key when the event was deleted meanwhile.
get_or_create_create(p) ==
    /\ req[p].pc = "create"
    /\ IF unique_together(req[p].user, req[p].pk) \/ ~foreign_key(req[p].pk)
       THEN /\ Goto(p, "reget")
            /\ UNCHANGED <<regs, nextId>>
       ELSE LET row == new_registration(req[p].user, req[p].pk)
            IN  /\ regs' = regs \cup {row}
                /\ nextId' = nextId + 1
                /\ req' = [req EXCEPT ![p].pc = "register_delay",
                                      ![p].registration = row,
                                      ![p].created = TRUE]
                /\ out' = NoOut
    /\ UNCHANGED <<now, events, queue>>

\* get_or_create, after IntegrityError: self.get() again, re-raising when the
\* row is still not found.
get_or_create_reget_raises(p) ==
    /\ req[p].pc = "reget"
    /\ Raise(p)
    /\ UNCHANGED <<now, events, regs, nextId, queue>>
get_or_create_reget(p) ==
    /\ req[p].pc = "reget"
    /\ LET rows == RowsOf(req[p].user, req[p].pk)
       IN  IF Cardinality(rows) # 1 THEN Raise(p)
           ELSE Existing(p, CHOOSE r \in rows : TRUE)
    /\ UNCHANGED <<now, events, regs, nextId, queue>>

\* The fields register clears on a cancelled row before saving it.
reactivated_as_new(row) ==
    [row EXCEPT !.id = nextId, !.is_cancelled = FALSE, !.cancelled_at = None]
reactivated_at_now(row) ==
    [row EXCEPT !.is_cancelled = FALSE, !.cancelled_at = None,
                !.registered_at = now]
reactivated_keeps_time(row) == [row EXCEPT !.is_cancelled = FALSE]
reactivated(row) == [row EXCEPT !.is_cancelled = FALSE, !.cancelled_at = None]

register_reactivate(p) ==
    /\ req[p].pc = "reactivate"
    /\ LET row == reactivated(req[p].registration)
       IN  IF save_raises(row)
           THEN Raise(p) /\ UNCHANGED regs
           ELSE /\ regs' = save(row)
                /\ req' = [req EXCEPT ![p].pc = "register_delay",
                                      ![p].registration = row]
                /\ out' = NoOut
    /\ UNCHANGED <<now, events, nextId, queue>>

Task(name, id) == [task |-> name, registration_id |-> id]

\* EventRegistrationSerializer reads registration.event (event_title,
\* event_date): a row that get() returned loads its event now, and
\* Event.DoesNotExist leaves the view when the event was deleted meanwhile
serializer_raises(p) == ~req[p].created /\ ~foreign_key(req[p].pk)

\* send_registration_email.delay(registration.id), then the 201 response
register_delay_twice(p) ==
    /\ req[p].pc = "register_delay"
    /\ queue' = queue \o <<Task("send_registration_email",
                               req[p].registration.id),
                          Task("send_registration_email",
                               req[p].registration.id)>>
    /\ Respond(p, HTTP_201_CREATED, NoDetail, {req[p].registration})
    /\ UNCHANGED <<now, events, regs, nextId>>
register_delay(p) ==
    /\ req[p].pc = "register_delay"
    /\ queue' = Append(queue, Task("send_registration_email",
                                   req[p].registration.id))
    /\ IF serializer_raises(p) THEN Raise(p)
       ELSE Respond(p, HTTP_201_CREATED, NoDetail, {req[p].registration})
    /\ UNCHANGED <<now, events, regs, nextId>>

\* ----------------------------------------------------------- unregister
\* EventRegistration.objects.get(user=..., event=..., is_cancelled=False)
active_registrations_any(u, pk) == RowsOf(u, pk)
active_registrations(u, pk) == {r \in RowsOf(u, pk) : r.is_cancelled = FALSE}

unregister_get(p) ==
    /\ req[p].pc = "unregister"
    /\ LET rows == active_registrations(req[p].user, req[p].pk)
       IN  IF rows = {}
           THEN Respond(p, HTTP_400_BAD_REQUEST, NotRegistered, {})
           ELSE IF Cardinality(rows) > 1 THEN Raise(p)
           ELSE /\ req' = [req EXCEPT ![p].pc = "cancel",
                                      ![p].registration = CHOOSE r \in rows : TRUE]
                /\ out' = NoOut
    /\ UNCHANGED <<now, events, regs, nextId, queue>>

\* EventRegistration.cancel: the fields it sets
cancelled_without_time(row) == [row EXCEPT !.is_cancelled = TRUE]
cancelled(row) == [row EXCEPT !.is_cancelled = TRUE, !.cancelled_at = now]

cancel(p) ==
    /\ req[p].pc = "cancel"
    /\ LET row == cancelled(req[p].registration)
       IN  IF save_raises(row)
           THEN Raise(p) /\ UNCHANGED regs
           ELSE /\ regs' = save(row)
                /\ req' = [req EXCEPT ![p].pc = "unregister_delay",
                                      ![p].registration = row]
                /\ out' = NoOut
    /\ UNCHANGED <<now, events, nextId, queue>>

\* send_cancellation_email.delay(registration.id), then the 200 response
unregister_delay(p) ==
    /\ req[p].pc = "unregister_delay"
    /\ queue' = Append(queue, Task("send_cancellation_email",
                                   req[p].registration.id))
    /\ Respond(p, HTTP_200_OK, Unregistered, {})
    /\ UNCHANGED <<now, events, regs, nextId>>

\* ------------------------------------------------------------ attendees
is_organizer_anyone(ev, u) == TRUE
is_organizer(ev, u) == ev.organizer = u

\* event.registrations.filter(is_cancelled=False)
attendee_list(pk) == {r \in regs : r.event = pk /\ r.is_cancelled = FALSE}

attendees(p) ==
    /\ req[p].pc = "attendees"
    /\ IF ~is_organizer(req[p].event, req[p].user)
       THEN Respond(p, HTTP_403_FORBIDDEN, OnlyOrganizer, {})
       ELSE Respond(p, HTTP_200_OK, NoDetail, attendee_list(req[p].pk))
    /\ UNCHANGED <<now, events, regs, nextId, queue>>

\* ---------------------------------------------------------------- clock
Tick ==
    /\ now < MaxTime
    /\ now' = now + 1
    /\ /\ out' = NoOut
    /\ UNCHANGED <<events, regs, nextId, queue, req>>

\* ------------------------------------------------- notification tasks
\* The broker refuses the message: .delay() raises, nothing in the view
\* catches it, and the exception leaves the handler.
register_delay_raises_rollback(p) ==
    /\ req[p].pc = "register_delay"
    /\ Raise(p)
    /\ regs' = IF req[p].created
               THEN {r \in regs : r.id # req[p].registration.id}
               ELSE save([req[p].registration EXCEPT !.is_cancelled = TRUE])
    /\ UNCHANGED <<now, events, nextId, queue>>
register_delay_raises(p) ==
    /\ req[p].pc = "register_delay"
    /\ Raise(p)
    /\ UNCHANGED <<now, events, regs, nextId, queue>>

unregister_delay_raises(p) ==
    /\ req[p].pc = "unregister_delay"
    /\ Raise(p)
    /\ UNCHANGED <<now, events, regs, nextId, queue>>

\* send_registration_email / send_cancellation_email in the Celery worker:
\* the row is looked up by id, the mail is sent, and every exception is
\* turned into the returned string.
run_task_raises(mail_ok) ==
    /\ queue # <<>>
    /\ queue' = Tail(queue)
    /\ out' = [NoOut EXCEPT
         !.op = Head(queue).task,
         !.status = IF ~\E r \in regs : r.id = Head(queue).registration_id
                    THEN HTTP_500_INTERNAL_SERVER_ERROR ELSE None,
         !.detail = IF ~\E r \in regs : r.id = Head(queue).registration_id
                    THEN ServerError
                    ELSE IF mail_ok THEN TaskSent ELSE TaskError]
    /\ UNCHANGED <<now, events, regs, nextId, req>>
run_task(mail_ok) ==
    /\ queue # <<>>
    /\ queue' = Tail(queue)
    /\ out' = [NoOut EXCEPT
         !.op = Head(queue).task,
         !.detail = IF ~\E r \in regs : r.id = Head(queue).registration_id
                    THEN TaskNotFound
                    ELSE IF mail_ok THEN TaskSent ELSE TaskError]
    /\ UNCHANGED <<now, events, regs, nextId, req>>

\* ------------------------------------------------------------ event CRUD
\* create, update, partial_update and destroy of ModelViewSet, each handler
\* one step: permissions, get_object(), the serializer's validation, the
\* write. Of an event's fields the model keeps date, max_attendees and
\* is_active; title, description and location are always sent and valid.

\* permissions.SAFE_METHODS
SAFE_METHODS == {"GET", "HEAD", "OPTIONS"}

\* IsOrganizerOrReadOnly.has_object_permission
has_object_permission_any(method, ev, u) == TRUE
has_object_permission(method, ev, u) ==
    method \in SAFE_METHODS \/ ev.organizer = u

\* request.data: a record of the fields the client sent
Part(name, values) == {NoBody} \cup {[x \in {name} |-> v] : v \in values}
Merge(f, g) ==
    [x \in DOMAIN f \cup DOMAIN g |-> IF x \in DOMAIN f THEN f[x] ELSE g[x]]

DateValues == 1..MaxTime
MaxValues  == {None} \cup (0..MaxCap)

\* the bodies of POST and PUT carry every field, those of POST name an
\* organizer as well; a PATCH changes at most one field
UpdateBodies ==
    {[date |-> d, max_attendees |-> m, is_active |-> a] :
        d \in DateValues, m \in MaxValues, a \in BOOLEAN}
CreateBodies ==
    {Merge(b, [organizer |-> o]) : b \in UpdateBodies, o \in Users}
PatchBodies ==
    Part("date", DateValues) \cup Part("max_attendees", MaxValues)
        \cup Part("is_active", BOOLEAN)

\* EventCreateUpdateSerializer.is_valid: the errors of the fields sent, and
\* of the required field date when it is missing from a full update
errors_without_min_value(body, partial) ==
    (IF ~partial /\ "date" \notin DOMAIN body THEN {DateRequired} ELSE {})
    \cup (IF "date" \in DOMAIN body /\ body.date < now
          THEN {DateInPast} ELSE {})
errors(body, partial) ==
    (IF ~partial /\ "date" \notin DOMAIN body THEN {DateRequired} ELSE {})
    \cup (IF "date" \in DOMAIN body /\ body.date < now
          THEN {DateInPast} ELSE {})
    \cup (IF /\ "max_attendees" \in DOMAIN body
             /\ body.max_attendees # None /\ body.max_attendees < 1
          THEN {MinValue} ELSE {})

\* perform_create: serializer.save(organizer=self.request.user); organizer
\* is no field of the serializer, so the one the body names is dropped
perform_create_from_body(u, body) ==
    [organizer |-> IF "organizer" \in DOMAIN body THEN body.organizer ELSE u,
     date |-> body.date,
     max_attendees |-> IF "max_attendees" \in DOMAIN body
                       THEN body.max_attendees ELSE None,
     is_active |-> IF "is_active" \in DOMAIN body THEN body.is_active
                   ELSE TRUE]
perform_create(u, body) ==
    [organizer |-> u,
     date |-> body.date,
     max_attendees |-> IF "max_attendees" \in DOMAIN body
                       THEN body.max_attendees ELSE None,
     is_active |-> IF "is_active" \in DOMAIN body THEN body.is_active
                   ELSE TRUE]

\* perform_update: serializer.save() writes the validated fields
perform_update(ev, body) ==
    [organizer |-> ev.organizer,
     date |-> IF "date" \in DOMAIN body THEN body.date ELSE ev.date,
     max_attendees |-> IF "max_attendees" \in DOMAIN body
                       THEN body.max_attendees ELSE ev.max_attendees,
     is_active |-> IF "is_active" \in DOMAIN body THEN body.is_active
                   ELSE ev.is_active]

\* the answer of a CRUD handler; the body is kept once it was validated
Answer(op, u, pk, status, detail, data, body) ==
    out' = [proc |-> 0, op |-> op, user |-> u, pk |-> pk, status |-> status,
            detail |-> detail, data |-> data, body |-> body]

\* POST /events/
create(u, body) ==
    /\ nextEventId <= MaxEvents + MaxCreated
    /\ IF u = AnonymousUser
       THEN /\ Answer("create", u, None, HTTP_401_UNAUTHORIZED,
                      NotAuthenticated, {}, NoBody)
            /\ UNCHANGED <<events, nextEventId>>
       ELSE IF errors(body, FALSE) # {}
       THEN /\ Answer("create", u, None, HTTP_400_BAD_REQUEST, NoDetail,
                      errors(body, FALSE), body)
            /\ UNCHANGED <<events, nextEventId>>
       ELSE /\ events' = [pk \in DOMAIN events \cup {nextEventId} |->
                            IF pk = nextEventId THEN perform_create(u, body)
                            ELSE events[pk]]
            /\ nextEventId' = nextEventId + 1
            /\ Answer("create", u, nextEventId, HTTP_201_CREATED, NoDetail,
                      {}, body)
    /\ UNCHANGED <<now, regs, nextId, queue, req, hist>>

\* what the permission classes and get_object() answer before the handler's
\* own work: 401, 404, 403, or None when the call may go on
refusal(method, u, pk) ==
    IF u = AnonymousUser THEN HTTP_401_UNAUTHORIZED
    ELSE IF pk \notin DOMAIN events THEN HTTP_404_NOT_FOUND
    ELSE IF ~has_object_permission(method, events[pk], u)
         THEN HTTP_403_FORBIDDEN
    ELSE None

refusal_detail(status) ==
    IF status = HTTP_401_UNAUTHORIZED THEN NotAuthenticated
    ELSE IF status = HTTP_404_NOT_FOUND THEN NotFound
    ELSE PermissionDenied

\* PUT /events/{id}/ (partial = FALSE), PATCH /events/{id}/ (partial = TRUE)
update(u, pk, body, partial) ==
    LET op == IF partial THEN "partial_update" ELSE "update"
        no == refusal(IF partial THEN "PATCH" ELSE "PUT", u, pk)
    IN  /\ IF no # None
           THEN /\ Answer(op, u, pk, no, refusal_detail(no), {}, NoBody)
                /\ UNCHANGED events
           ELSE IF errors(body, partial) # {}
           THEN /\ Answer(op, u, pk, HTTP_400_BAD_REQUEST, NoDetail,
                          errors(body, partial), body)
                /\ UNCHANGED events
           ELSE /\ events' = [events EXCEPT
                                ![pk] = perform_update(events[pk], body)]
                /\ Answer(op, u, pk, HTTP_200_OK, NoDetail, {}, body)
        /\ UNCHANGED <<now, regs, nextId, queue, req, hist, nextEventId>>

\* DELETE /events/{id}/: instance.delete() with on_delete=CASCADE of
\* EventRegistration.event
destroy_without_cascade(u, pk) ==
    LET no == refusal("DELETE", u, pk)
    IN  /\ IF no # None
           THEN /\ Answer("destroy", u, pk, no, refusal_detail(no), {},
                          NoBody)
                /\ UNCHANGED <<events, regs>>
           ELSE /\ events' = [k \in DOMAIN events \ {pk} |-> events[k]]
                /\ regs' = regs
                /\ Answer("destroy", u, pk, HTTP_204_NO_CONTENT, NoDetail,
                          {}, NoBody)
        /\ UNCHANGED <<now, nextId, queue, req, hist, nextEventId>>
destroy(u, pk) ==
    LET no == refusal("DELETE", u, pk)
    IN  /\ IF no # None
           THEN /\ Answer("destroy", u, pk, no, refusal_detail(no), {},
                          NoBody)
                /\ UNCHANGED <<events, regs>>
           ELSE /\ events' = [k \in DOMAIN events \ {pk} |-> events[k]]
                /\ regs' = {r \in regs : r.event # pk}
                /\ Answer("destroy", u, pk, HTTP_204_NO_CONTENT, NoDetail,
                          {}, NoBody)
        /\ UNCHANGED <<now, nextId, queue, req, hist, nextEventId>>

\* ------------------------------------------------------- specifications
EventRows == [organizer : Users, date : 1..MaxTime,
              max_attendees : {None} \cup (1..MaxCap), is_active : BOOLEAN]

\* The registrations already in the table: per (user, event) one of the
\* states drawn (none, active, cancelled), made before the clock started,
\* ids in insertion order, and no event over its capacity.
Pairs == Users \X EventIds
Index(pr) == (pr[2] - 1) * MaxUsers + pr[1]
RowsFrom(st) ==
    {[id |-> Cardinality({q \in Pairs : st[q] # "none" /\ Index(q) <= Index(pr)}),
      user |-> pr[1], event |-> pr[2], registered_at |-> 0,
      is_cancelled |-> (st[pr] = "cancelled"),
      cancelled_at |-> IF st[pr] = "cancelled" THEN 0 ELSE None]
     : pr \in {q \in Pairs : st[q] # "none"}}

InitWith(states) ==
    /\ now = 1
    /\ events \in [EventIds -> EventRows]
    /\ events[1].organizer = 1      \* user ids are interchangeable
    /\ \E st \in [Pairs -> states] :
         /\ regs = RowsFrom(st)
         /\ nextId = Cardinality(RowsFrom(st)) + 1
    /\ \A pk \in EventIds :
         Truthy(events[pk].max_attendees)
            => attendees_count(pk) <= events[pk].max_attendees
    /\ queue = <<>>
    /\ req = [p \in Procs |-> Idle]
    /\ out = NoOut
    /\ hist = <<>>
    /\ nextEventId = MaxEvents + 1

Init == InitWith({"none", "active"})

Next ==
    \/ \E p \in Procs, op \in Ops, u \in Callers, pk \in PKs :
           Request(p, op, u, pk) /\ UNCHANGED <<hist, nextEventId>>
    \/ \E p \in Procs : register_check(p) /\ UNCHANGED <<hist, nextEventId>>
    \/ \E p \in Procs : get_or_create_get(p) /\ UNCHANGED <<hist, nextEventId>>
    \/ \E p \in Procs : get_or_create_create(p) /\ UNCHANGED <<hist, nextEventId>>
    \/ \E p \in Procs : get_or_create_reget(p) /\ UNCHANGED <<hist, nextEventId>>
    \/ \E p \in Procs : register_reactivate(p) /\ UNCHANGED <<hist, nextEventId>>
    \/ \E p \in Procs : register_delay(p) /\ UNCHANGED <<hist, nextEventId>>
    \/ \E p \in Procs : unregister_get(p) /\ UNCHANGED <<hist, nextEventId>>
    \/ \E p \in Procs : cancel(p) /\ UNCHANGED <<hist, nextEventId>>
    \/ \E p \in Procs : unregister_delay(p) /\ UNCHANGED <<hist, nextEventId>>
    \/ \E p \in Procs : attendees(p) /\ UNCHANGED <<hist, nextEventId>>
    \/ \E ok \in BOOLEAN : run_task(ok) /\ UNCHANGED <<hist, nextEventId>>
    \/ Tick /\ UNCHANGED <<hist, nextEventId>>

Spec == Init /\ [][Next]_vars

\* The same system with a broker that may refuse a message.
FaultNext ==
    \/ Next
    \/ \E p \in Procs : register_delay_raises(p) /\ UNCHANGED <<hist, nextEventId>>
    \/ \E p \in Procs : unregister_delay_raises(p) /\ UNCHANGED <<hist, nextEventId>>

FaultSpec == Init /\ [][FaultNext]_vars

\* One client at a time: a call is only made when the previous one was
\* answered, and every answer is recorded with the event's attendees_count
\* after it.
Record ==
    hist' = IF out' # NoOut /\ out'.proc # 0
            THEN Append(hist, [op |-> out'.op, user |-> out'.user,
                               pk |-> out'.pk, status |-> out'.status,
                               detail |-> out'.detail,
                               count |-> Cardinality(
                                   {r \in regs' : /\ r.event = out'.pk
                                                  /\ r.is_cancelled = FALSE})])
            ELSE hist

SeqNext ==
    \/ \E op \in {"register", "unregister"}, u \in Users, pk \in EventIds :
           /\ Len(hist) < MaxHist
           /\ Request(1, op, u, pk) /\ Record /\ UNCHANGED nextEventId
    \/ register_check(1) /\ Record /\ UNCHANGED nextEventId
    \/ get_or_create_get(1) /\ Record /\ UNCHANGED nextEventId
    \/ get_or_create_create(1) /\ Record /\ UNCHANGED nextEventId
    \/ register_reactivate(1) /\ Record /\ UNCHANGED nextEventId
    \/ register_delay(1) /\ Record /\ UNCHANGED nextEventId
    \/ unregister_get(1) /\ Record /\ UNCHANGED nextEventId
    \/ cancel(1) /\ Record /\ UNCHANGED nextEventId
    \/ unregister_delay(1) /\ Record /\ UNCHANGED nextEventId
    \/ \E ok \in BOOLEAN : run_task(ok) /\ UNCHANGED <<hist, nextEventId>>
    \/ Tick /\ UNCHANGED <<hist, nextEventId>>

SeqSpec == Init /\ [][SeqNext]_vars

\* The event store under its CRUD calls, one call at a time.
CrudNext ==
    \/ \E u \in Callers, body \in CreateBodies : create(u, body)
    \/ \E u \in Callers, pk \in AllPKs, body \in UpdateBodies :
           update(u, pk, body, FALSE)
    \/ \E u \in Callers, pk \in AllPKs, body \in PatchBodies :
           update(u, pk, body, TRUE)
    \/ \E u \in Callers, pk \in AllPKs : destroy(u, pk)
    \/ Tick /\ UNCHANGED <<hist, nextEventId>>

CrudSpec == Init /\ [][CrudNext]_vars

\* One client registering and unregistering while events are deleted: the
\* delete can fall between any two queries of the handler, and the tasks
\* run at any later time.
LifeNext ==
    \/ \E op \in {"register", "unregister"}, u \in Users, pk \in EventIds :
           Request(1, op, u, pk) /\ UNCHANGED <<hist, nextEventId>>
    \/ register_check(1) /\ UNCHANGED <<hist, nextEventId>>
    \/ get_or_create_get(1) /\ UNCHANGED <<hist, nextEventId>>
    \/ get_or_create_create(1) /\ UNCHANGED <<hist, nextEventId>>
    \/ get_or_create_reget(1) /\ UNCHANGED <<hist, nextEventId>>
    \/ register_reactivate(1) /\ UNCHANGED <<hist, nextEventId>>
    \/ register_delay(1) /\ UNCHANGED <<hist, nextEventId>>
    \/ unregister_get(1) /\ UNCHANGED <<hist, nextEventId>>
    \/ cancel(1) /\ UNCHANGED <<hist, nextEventId>>
    \/ unregister_delay(1) /\ UNCHANGED <<hist, nextEventId>>
    \/ \E u \in Users, pk \in EventIds : destroy(u, pk)
    \/ \E ok \in BOOLEAN : run_task(ok) /\ UNCHANGED <<hist, nextEventId>>
    \/ Tick /\ UNCHANGED <<hist, nextEventId>>

LifeSpec == Init /\ [][LifeNext]_vars

\* Two calls of the same operation by the same user for the same event, on
\* a pair that has a row: the second call may start while the first is
\* running, and every answer is recorded.
RaceInit == InitWith({"active", "cancelled"})

Called == Len(hist) + Cardinality({p \in Procs : req[p].pc # "idle"})

SameCall(op, u, pk) ==
    /\ \A p \in Procs :
          req[p].pc # "idle" =>
              req[p].op = op /\ req[p].user = u /\ req[p].pk = pk
    /\ \A i \in DOMAIN hist :
          hist[i].op = op /\ hist[i].user = u /\ hist[i].pk = pk

RaceNext ==
    \/ \E p \in Procs, op \in {"register", "unregister"}, u \in Users,
          pk \in EventIds :
           /\ Called < MaxRaceCalls
           /\ SameCall(op, u, pk)
           /\ Request(p, op, u, pk) /\ Record /\ UNCHANGED nextEventId
    \/ \E p \in Procs : register_check(p) /\ Record /\ UNCHANGED nextEventId
    \/ \E p \in Procs :
           get_or_create_get(p) /\ Record /\ UNCHANGED nextEventId
    \/ \E p \in Procs :
           register_reactivate(p) /\ Record /\ UNCHANGED nextEventId
    \/ \E p \in Procs : register_delay(p) /\ Record /\ UNCHANGED nextEventId
    \/ \E p \in Procs : unregister_get(p) /\ Record /\ UNCHANGED nextEventId
    \/ \E p \in Procs : cancel(p) /\ Record /\ UNCHANGED nextEventId
    \/ \E p \in Procs :
           unregister_delay(p) /\ Record /\ UNCHANGED nextEventId
    \/ Tick /\ UNCHANGED <<hist, nextEventId>>

RaceSpec == RaceInit /\ [][RaceNext]_vars

\* ------------------------------------------------------------ properties
\* worker p takes a step of the handler it is running
Steps(p) == req[p].pc # "idle" /\ req'[p] # req[p]

\* worker p's handler answers in this step
Answers(p) == Steps(p) /\ req'[p].pc = "idle"

Full(pk) ==
    /\ Truthy(events[pk].max_attendees)
    /\ attendees_count(pk) >= events[pk].max_attendees

HasActive(u, pk) ==
    \E r \in regs : r.user = u /\ r.event = pk /\ r.is_cancelled = FALSE

HasCancelled(u, pk) ==
    \E r \in regs : r.user = u /\ r.event = pk /\ r.is_cancelled = TRUE

\* C1: an event with max_attendees = N never has more than N non-cancelled
\* registrations, whatever the interleaving of concurrent register calls.
C1_CapacityNeverExceeded ==
    \A pk \in DOMAIN events :
        Truthy(events[pk].max_attendees)
            => attendees_count(pk) <= events[pk].max_attendees

\* C2: there is at most one registration row per (user, event), and no two
\* rows share an id, under every interleaving of register and unregister.
C2_OneRowPerUserEvent ==
    \A r1, r2 \in regs :
        \/ r1 = r2
        \/ /\ r1.id # r2.id
           /\ ~(r1.user = r2.user /\ r1.event = r2.event)

\* a concurrent register of the same (user, event) was refused by the
\* constraint while another register had already inserted the row
C2_Witness ==
    \E p \in Procs :
        /\ req[p].pc = "reget"
        /\ Cardinality(RowsOf(req[p].user, req[p].pk)) = 1

\* C3: a register that finds the caller's row cancelled reactivates that very
\* row (same id, is_cancelled false, cancelled_at null) without adding a row,
\* and the registration it returns is that row.
C3_ReactivationReusesRow ==
    [][\A p \in Procs :
          /\ (Steps(p) /\ req[p].pc = "reactivate") =>
                /\ Cardinality(regs') = Cardinality(regs)
                /\ {r.id : r \in regs'} = {r.id : r \in regs}
                /\ \E old \in RowsOf(req[p].user, req[p].pk) :
                     /\ old.id = req[p].registration.id
                     /\ [old EXCEPT !.is_cancelled = FALSE,
                                    !.cancelled_at = None] \in regs'
          /\ (Answers(p) /\ req[p].pc = "register_delay" /\ ~req[p].created
                 /\ out'.status = HTTP_201_CREATED) =>
                \E r \in out'.data :
                     /\ out'.data = {r}
                     /\ r.is_cancelled = FALSE /\ r.cancelled_at = None
                     /\ \E row \in RowsOf(req[p].user, req[p].pk) :
                            row.id = r.id
      ]_vars

\* a reactivated row has been saved and is about to be returned
C3_Witness ==
    \E p \in Procs :
        /\ req[p].pc = "register_delay" /\ ~req[p].created
        /\ req[p].registration \in regs
        /\ req[p].registration.registered_at < now

\* the detail the precondition order past, inactive, full asks for
C4_FirstFailure(ev, pk) ==
    IF ev.date < now THEN EventPast
    ELSE IF ev.is_active = FALSE THEN EventInactive
    ELSE IF ev.max_attendees # None /\ ev.max_attendees # 0
            /\ attendees_count(pk) >= ev.max_attendees THEN EventFull
    ELSE NoDetail

\* C4: register answers with the first failing precondition in the order
\* past, inactive, full, and only then already-registered; the four details
\* are pairwise different.
C4_PreconditionOrder ==
    [][/\ Cardinality({EventPast, EventInactive, EventFull,
                       AlreadyRegistered}) = 4
       /\ \A p \in Procs :
          /\ (Steps(p) /\ req[p].pc = "register") =>
                LET d == C4_FirstFailure(req[p].event, req[p].pk)
                IN  IF d = NoDetail
                    THEN req'[p].pc = "get_or_create" /\ out' = NoOut
                    ELSE /\ Answers(p)
                         /\ out'.status = HTTP_400_BAD_REQUEST
                         /\ out'.detail = d
          /\ (Answers(p) /\ out'.detail = AlreadyRegistered) =>
                /\ req[p].pc \in {"get_or_create", "reget"}
                /\ HasActive(req[p].user, req[p].pk)
      ]_vars

\* an inactive event that is also full answered EventInactive
C4_Witness ==
    /\ out.op = "register" /\ out.detail = EventInactive
    /\ Full(out.pk)
    /\ ~is_past(events[out.pk])

\* C5: register on an event whose date is before the current time answers
\* 400 EventPast whatever is_active, the capacity and the caller's row are,
\* and changes no registration.
C5_PastEventRefused ==
    [][\A p \in Procs :
          /\ (Steps(p) /\ req[p].pc = "register"
                 /\ req[p].event.date < now) =>
                /\ Answers(p)
                /\ out'.status = HTTP_400_BAD_REQUEST
                /\ out'.detail = EventPast
                /\ regs' = regs /\ events' = events /\ queue' = queue
          /\ (req[p].pc = "idle" /\ req'[p].pc = "register") =>
                regs' = regs /\ events' = events /\ queue' = queue
      ]_vars

\* EventPast was answered for an event that is inactive and full, to a caller
\* who holds an active registration
C5_Witness ==
    /\ out.op = "register" /\ out.detail = EventPast
    /\ out.status = HTTP_400_BAD_REQUEST
    /\ ~events[out.pk].is_active
    /\ Full(out.pk)
    /\ HasActive(out.user, out.pk)

\* C6: unregister by a user with no registration row for the event, or with
\* only a cancelled one, answers 400 NotRegistered, changes no registration or
\* event and enqueues nothing.
C6_NotRegisteredNoMutation ==
    [][\A p \in Procs :
          /\ (Steps(p) /\ req[p].pc = "unregister"
                 /\ ~HasActive(req[p].user, req[p].pk)) =>
                /\ Answers(p)
                /\ out'.status = HTTP_400_BAD_REQUEST
                /\ out'.detail = NotRegistered
                /\ regs' = regs /\ events' = events /\ queue' = queue
          /\ (req[p].pc = "idle" /\ req'[p].pc = "unregister") =>
                regs' = regs /\ events' = events /\ queue' = queue
      ]_vars

\* NotRegistered was answered to a user whose row is cancelled
C6_Witness ==
    /\ out.op = "unregister" /\ out.detail = NotRegistered
    /\ HasCancelled(out.user, out.pk)

\* the calls of the capacity scenario and the answers expected of them
C7_Calls(a, b) ==
    <<[op |-> "register", user |-> a], [op |-> "register", user |-> b],
      [op |-> "unregister", user |-> a], [op |-> "register", user |-> b]>>

C7_Answers ==
    <<[status |-> HTTP_201_CREATED, detail |-> NoDetail, count |-> 1],
      [status |-> HTTP_400_BAD_REQUEST, detail |-> EventFull, count |-> 1],
      [status |-> HTTP_200_OK, detail |-> Unregistered, count |-> 0],
      [status |-> HTTP_201_CREATED, detail |-> NoDetail, count |-> 1]>>

\* the first k recorded calls are the first k calls of the scenario, made on
\* an event that had no registration before them and is still active and
\* in the future
C7_Ran(a, b, pk, k) ==
    /\ a # b
    /\ events[pk].max_attendees = 1
    /\ events[pk].is_active
    /\ events[pk].date >= now
    /\ \A r \in regs : r.event = pk => r.registered_at >= 1
    /\ Len(hist) >= k
    /\ \A i \in 1..k : /\ hist[i].pk = pk
                       /\ hist[i].op = C7_Calls(a, b)[i].op
                       /\ hist[i].user = C7_Calls(a, b)[i].user

\* C7: on an active future event with max_attendees = 1 and no registration
\* yet, the calls A registers, B registers, A unregisters, B registers are
\* answered 201 (attendees_count 1), 400 EventFull (1), 200 (0), 201 (1).
C7_Scenario ==
    \A a \in Users, b \in Users, pk \in EventIds, k \in 1..4 :
        C7_Ran(a, b, pk, k) =>
            /\ hist[k].status = C7_Answers[k].status
            /\ hist[k].detail = C7_Answers[k].detail
            /\ hist[k].count = C7_Answers[k].count

\* all four calls of the scenario were made and answered
C7_Witness ==
    \E a \in Users, b \in Users, pk \in EventIds : C7_Ran(a, b, pk, 4)

\* C8: attendees answers 200 with exactly the event's non-cancelled
\* registrations when the caller is the organizer, and 403 without any
\* registration data to every other authenticated caller.
C8_AttendeesOrganizerOnly ==
    (out.op = "attendees" /\ out.user \in Users /\ out.pk \in DOMAIN events) =>
        IF out.user = events[out.pk].organizer
        THEN /\ out.status = HTTP_200_OK
             /\ out.data = {r \in regs : r.event = out.pk /\ ~r.is_cancelled}
        ELSE /\ out.status = HTTP_403_FORBIDDEN
             /\ out.data = {}

\* a user with an active registration for the event was denied its list
C8_Witness ==
    /\ out.op = "attendees" /\ out.status = HTTP_403_FORBIDDEN
    /\ HasActive(out.user, out.pk)

\* C9: a register or unregister call whose state change was made answers
\* 201 / 200 even when enqueueing the notification fails.
C9_EnqueueFailureNotPropagated ==
    [][\A p \in Procs :
          /\ (Steps(p) /\ req[p].pc = "register_delay") =>
                Answers(p) /\ out'.status = HTTP_201_CREATED
          /\ (Steps(p) /\ req[p].pc = "unregister_delay") =>
                Answers(p) /\ out'.status = HTTP_200_OK
      ]_vars

\* C10: neither the enqueue that follows the state change of register or
\* unregister, whether it succeeds or fails, nor the task's later run changes
\* a registration or an event: the written row stays in the table.
C10_StateChangeStaysCommitted ==
    [][/\ \A p \in Procs :
            (Steps(p) /\ req[p].pc \in {"register_delay", "unregister_delay"}) =>
                /\ Answers(p)
                /\ regs' = regs /\ events' = events
                /\ \E r \in regs' : r.id = req[p].registration.id
       /\ (queue # <<>> /\ queue' = Tail(queue)) =>
                regs' = regs /\ events' = events
      ]_vars

\* the enqueue failed and the registration it followed is in the table
C10_Witness ==
    /\ out.op = "register" /\ out.status = HTTP_500_INTERNAL_SERVER_ERROR
    /\ HasActive(out.user, out.pk)

\* C11: a register whose INSERT is refused by the uniqueness constraint,
\* because a concurrent call inserted the (user, event) row first, looks the
\* row up once more and goes on with the row it finds; the generic error
\* (500) is answered only when that second lookup finds no row.
C11_RetryOnceAfterIntegrityError ==
    [][\A p \in Procs :
          LET rows == RowsOf(req[p].user, req[p].pk)
          IN  /\ (Steps(p) /\ req[p].pc = "create" /\ rows # {}) =>
                    /\ req'[p].pc = "reget"
                    /\ out' = NoOut
                    /\ regs' = regs /\ queue' = queue
              /\ (Steps(p) /\ req[p].pc = "reget") =>
                    IF rows = {}
                    THEN /\ Answers(p)
                         /\ out'.status = HTTP_500_INTERNAL_SERVER_ERROR
                    ELSE /\ out'.status # HTTP_500_INTERNAL_SERVER_ERROR
                         /\ regs' = regs
                         /\ \E r \in rows :
                              IF r.is_cancelled
                              THEN /\ req'[p].pc = "reactivate"
                                   /\ req'[p].registration = r
                              ELSE /\ Answers(p)
                                   /\ out'.status = HTTP_400_BAD_REQUEST
                                   /\ out'.detail = AlreadyRegistered
      ]_vars

\* the INSERT of a register was refused, and the row the concurrent call
\* inserted has been cancelled by the time of the second lookup
C11_Witness ==
    \E p \in Procs :
        /\ req[p].pc = "reget"
        /\ \E r \in RowsOf(req[p].user, req[p].pk) :
               r.is_cancelled /\ r.registered_at >= 1

\* worker p runs register and worker q unregister for the same user and event
C12_Concurrent(p, q) ==
    /\ p # q
    /\ req[p].pc # "idle" /\ req[p].op = "register"
    /\ req[q].pc # "idle" /\ req[q].op = "unregister"
    /\ req[p].user = req[q].user /\ req[p].pk = req[q].pk

\* C12: while a register and an unregister of the same user for the same
\* event run concurrently, every write lands on the one row of the pair (the
\* later write decides its state), each call is answered 200/201 or with a
\* defined 400 detail, and the pair never has two rows.
C12_RegisterUnregisterRace ==
    [][\A p, q \in Procs :
          (C12_Concurrent(p, q) /\ (Steps(p) \/ Steps(q))) =>
            LET u    == req[p].user
                pk   == req[p].pk
                rows == {r \in regs : r.user = u /\ r.event = pk}
                post == {r \in regs' : r.user = u /\ r.event = pk}
            IN  /\ Cardinality(post) <= 1
                /\ rows # {} => {r.id : r \in post} = {r.id : r \in rows}
                /\ (Steps(q) /\ req[q].pc = "cancel") =>
                       \A r \in post : r.is_cancelled
                /\ (Steps(p) /\ req[p].pc \in {"create", "reactivate"}
                        /\ req'[p].pc = "register_delay") =>
                       \A r \in post : ~r.is_cancelled
                /\ Answers(p) =>
                       \/ /\ out'.status = HTTP_201_CREATED
                          /\ Cardinality(post) = 1
                       \/ /\ out'.status = HTTP_400_BAD_REQUEST
                          /\ out'.detail \in {EventPast, EventInactive,
                                              EventFull, AlreadyRegistered}
                /\ Answers(q) =>
                       \/ /\ out'.status = HTTP_200_OK
                          /\ Cardinality(post) = 1
                       \/ /\ out'.status = HTTP_400_BAD_REQUEST
                          /\ out'.detail = NotRegistered
      ]_vars

\* a register was answered 201 for the row a still running unregister of
\* the same user had cancelled
C12_Witness ==
    \E q \in Procs :
        /\ req[q].op = "unregister" /\ req[q].pc = "unregister_delay"
        /\ out.op = "register" /\ out.status = HTTP_201_CREATED
        /\ out.user = req[q].user /\ out.pk = req[q].pk

\* C13: one client at a time: a register by a user without a row for an
\* active, future, not full event inserts exactly one row (non-cancelled,
\* registered_at the current time), which raises the event's attendees_count
\* by one and changes nothing else, and answers 201 with that row.
C13_NewRegistration ==
    [][LET u    == req[1].user
           pk   == req[1].pk
           ev   == req[1].event
           same == regs' = regs /\ events' = events /\ queue' = queue
       IN  /\ (Steps(1) /\ req[1].pc = "register" /\ RowsOf(u, pk) = {}
                  /\ ev.date >= now /\ ev.is_active
                  /\ (ev.max_attendees = None
                        \/ attendees_count(pk) < ev.max_attendees)) =>
                 req'[1].pc = "get_or_create" /\ same
           /\ (Steps(1) /\ req[1].pc = "get_or_create"
                  /\ RowsOf(u, pk) = {}) =>
                 req'[1].pc = "create" /\ same
           /\ (Steps(1) /\ req[1].pc = "create" /\ RowsOf(u, pk) = {}) =>
                 /\ \E r \in regs' :
                      /\ r \notin regs /\ regs' = regs \cup {r}
                      /\ r.user = u /\ r.event = pk
                      /\ r.is_cancelled = FALSE /\ r.cancelled_at = None
                      /\ r.registered_at = now
                      /\ \A o \in regs : o.id # r.id
                 /\ Cardinality({r \in regs' : /\ r.event = pk
                                               /\ r.is_cancelled = FALSE})
                       = attendees_count(pk) + 1
                 /\ events' = events /\ queue' = queue
                 /\ req'[1].pc = "register_delay"
           /\ (Steps(1) /\ req[1].pc = "register_delay"
                  /\ req[1].created) =>
                 /\ Answers(1) /\ out'.status = HTTP_201_CREATED
                 /\ regs' = regs /\ events' = events
                 /\ \E r \in regs :
                      /\ RowsOf(u, pk) = {r}
                      /\ r.is_cancelled = FALSE
                      /\ out'.data = {r}
      ]_vars

\* a first registration made after the clock started was answered 201
C13_Witness ==
    /\ out.op = "register" /\ out.status = HTTP_201_CREATED
    /\ \E r \in out.data :
         /\ r \in regs /\ r.registered_at >= 1
         /\ r.user = out.user /\ r.event = out.pk
         /\ attendees_count(out.pk) = 2

\* C14: a register by a user who holds a non-cancelled registration, for an
\* active, future, not full event, passes the three event checks and is then
\* answered 400 AlreadyRegistered; no registration or event changes and
\* nothing is enqueued.
C14_AlreadyRegistered ==
    [][\A p \in Procs :
          LET u    == req[p].user
              pk   == req[p].pk
              ev   == req[p].event
              same == regs' = regs /\ events' = events /\ queue' = queue
          IN  /\ (Steps(p) /\ req[p].pc = "register" /\ HasActive(u, pk)
                     /\ ev.date >= now /\ ev.is_active
                     /\ (ev.max_attendees = None
                           \/ attendees_count(pk) < ev.max_attendees)) =>
                    req'[p].pc = "get_or_create" /\ same
              /\ (Steps(p) /\ req[p].pc \in {"get_or_create", "reget"}
                     /\ HasActive(u, pk)) =>
                    /\ Answers(p)
                    /\ out'.status = HTTP_400_BAD_REQUEST
                    /\ out'.detail = AlreadyRegistered
                    /\ same
      ]_vars

\* AlreadyRegistered was answered for an event that is not full
C14_Witness ==
    /\ out.op = "register" /\ out.detail = AlreadyRegistered
    /\ out.status = HTTP_400_BAD_REQUEST
    /\ HasActive(out.user, out.pk)
    /\ ~Full(out.pk)
    /\ queue = <<>>

\* C15: on an active, future event the check step of register answers
\* EventFull exactly when max_attendees is set and the non-cancelled
\* registrations counted in that step are at least max_attendees; EventFull
\* is answered nowhere else, and never for an event without max_attendees.
C15_EventFullIffAtCapacity ==
    [][\A p \in Procs :
          LET pk == req[p].pk
              ev == req[p].event
              n  == Cardinality({r \in regs : /\ r.event = pk
                                              /\ r.is_cancelled = FALSE})
          IN  /\ (Steps(p) /\ req[p].pc = "register"
                     /\ ev.date >= now /\ ev.is_active) =>
                    ((/\ Answers(p)
                      /\ out'.status = HTTP_400_BAD_REQUEST
                      /\ out'.detail = EventFull)
                     <=> (ev.max_attendees # None /\ n >= ev.max_attendees))
              /\ (Answers(p) /\ out'.detail = EventFull) =>
                    /\ req[p].pc = "register"
                    /\ events[pk].max_attendees # None
      ]_vars

\* a register was answered 201 on an event with max_attendees = 1 that also
\* holds a cancelled registration of another user
C15_Witness ==
    /\ out.op = "register" /\ out.status = HTTP_201_CREATED
    /\ events[out.pk].max_attendees = 1
    /\ \E r \in regs : r.event = out.pk /\ r.user # out.user /\ r.is_cancelled

\* the number of non-cancelled registrations of event pk
C16_Count(pk) == Cardinality({r \in regs : r.event = pk /\ r.is_cancelled = FALSE})

\* C16: available_spots is max(0, max_attendees - attendees_count), so never
\* negative, when max_attendees is set, and null when it is null; a step
\* that adds one active registration lowers it by one, or leaves it at 0.
C16_AvailableSpots ==
    /\ [](\A pk \in DOMAIN events :
            LET m == events[pk].max_attendees
            IN  IF m = None
                THEN available_spots(pk) = None
                ELSE /\ available_spots(pk) >= 0
                     /\ available_spots(pk) =
                          IF m - C16_Count(pk) > 0 THEN m - C16_Count(pk)
                          ELSE 0)
    /\ [][\A pk \in DOMAIN events :
            (/\ events[pk].max_attendees # None
             /\ events' = events
             /\ C16_Count(pk)' = C16_Count(pk) + 1) =>
                available_spots(pk)' =
                    IF available_spots(pk) > 0 THEN available_spots(pk) - 1
                    ELSE 0
         ]_vars

\* an event holds more active registrations than max_attendees and its
\* available_spots is 0
C16_Witness ==
    \E pk \in DOMAIN events :
        /\ events[pk].max_attendees # None
        /\ C16_Count(pk) > events[pk].max_attendees
        /\ available_spots(pk) = 0

\* C17: one client at a time: an unregister by a user who holds a
\* non-cancelled registration cancels that row (is_cancelled true,
\* cancelled_at the current time), which lowers the event's attendees_count
\* by one and changes no other row, and answers 200, whatever the event's
\* date, is_active and capacity are.
C17_Unregister ==
    [][LET u  == req[1].user
           pk == req[1].pk
       IN  /\ (Steps(1) /\ req[1].pc = "unregister" /\ HasActive(u, pk)) =>
                 /\ req'[1].pc = "cancel"
                 /\ req'[1].registration \in
                        {r \in regs : /\ r.user = u /\ r.event = pk
                                      /\ r.is_cancelled = FALSE}
                 /\ regs' = regs /\ events' = events /\ queue' = queue
           /\ (Steps(1) /\ req[1].pc = "cancel") =>
                 /\ \E old \in regs :
                      /\ old.user = u /\ old.event = pk
                      /\ old.is_cancelled = FALSE
                      /\ regs' = (regs \ {old}) \cup
                                   {[old EXCEPT !.is_cancelled = TRUE,
                                                !.cancelled_at = now]}
                 /\ Cardinality({r \in regs' : /\ r.event = pk
                                               /\ r.is_cancelled = FALSE})
                       = attendees_count(pk) - 1
                 /\ events' = events /\ queue' = queue
                 /\ req'[1].pc = "unregister_delay"
           /\ (Steps(1) /\ req[1].pc = "unregister_delay") =>
                 /\ Answers(1)
                 /\ out'.status = HTTP_200_OK /\ out'.detail = Unregistered
                 /\ regs' = regs /\ events' = events
      ]_vars

\* an unregister was answered 200 on a past, inactive event whose only
\* place had been taken by the cancelled registration
C17_Witness ==
    /\ out.op = "unregister" /\ out.status = HTTP_200_OK
    /\ events[out.pk].date < now
    /\ ~events[out.pk].is_active
    /\ events[out.pk].max_attendees = 1
    /\ \E r \in regs : /\ r.user = out.user /\ r.event = out.pk
                       /\ r.is_cancelled /\ r.cancelled_at = now

\* C18: the step in which register answers 201 appends exactly one
\* send_registration_email task for the returned row, the step in which
\* unregister answers 200 exactly one send_cancellation_email task for the
\* cancelled row, and no other step of a request adds to the queue.
C18_NotificationOncePerSuccess ==
    [][LET added(name, id) ==
               queue' = Append(queue, [task |-> name, registration_id |-> id])
       IN  IF \E p \in Procs : Answers(p) /\ out'.status = HTTP_201_CREATED
           THEN /\ out'.op = "register"
                /\ \E r \in out'.data :
                     /\ out'.data = {r}
                     /\ added("send_registration_email", r.id)
           ELSE IF \E p \in Procs : Answers(p) /\ out'.status = HTTP_200_OK
                                       /\ out'.op = "unregister"
           THEN \E p \in Procs :
                     /\ Answers(p)
                     /\ req[p].registration.user = out'.user
                     /\ req[p].registration.event = out'.pk
                     /\ added("send_cancellation_email",
                              req[p].registration.id)
           ELSE queue' = queue \/ (queue # <<>> /\ queue' = Tail(queue))
      ]_vars

\* an unregister was answered 200 and the queue holds the one cancellation
\* task of the caller's row
C18_Witness ==
    /\ out.op = "unregister" /\ out.status = HTTP_200_OK
    /\ \E r \in regs :
         /\ r.user = out.user /\ r.event = out.pk /\ r.is_cancelled
         /\ queue = <<[task |-> "send_cancellation_email",
                       registration_id |-> r.id]>>

\* C19: an update, partial update or delete of an existing event by an
\* authenticated user who is not its organizer is answered 403 and changes
\* no event and no registration; such a call is answered 200 / 204 only to
\* the organizer, whose delete always succeeds.
C19_OnlyOrganizerWrites ==
    [][(/\ out'.op \in {"update", "partial_update", "destroy"}
        /\ out'.user \in Users
        /\ out'.pk \in DOMAIN events) =>
           LET ev == events[out'.pk]
           IN  /\ out'.status \in {HTTP_200_OK, HTTP_204_NO_CONTENT}
                     => ev.organizer = out'.user
               /\ ev.organizer # out'.user =>
                     /\ out'.status = HTTP_403_FORBIDDEN
                     /\ events' = events /\ regs' = regs
               /\ (ev.organizer = out'.user /\ out'.op = "destroy") =>
                     /\ out'.status = HTTP_204_NO_CONTENT
                     /\ out'.pk \notin DOMAIN events'
               /\ (ev.organizer = out'.user /\ out'.op # "destroy") =>
                     /\ out'.status \in {HTTP_200_OK, HTTP_400_BAD_REQUEST}
                     /\ out'.status = HTTP_400_BAD_REQUEST
                            => events' = events
                     /\ regs' = regs
      ]_vars

\* a user registered for an event tried to delete it, was answered 403, and
\* the event and the registration are still there
C19_Witness ==
    /\ out.op = "destroy" /\ out.status = HTTP_403_FORBIDDEN
    /\ out.pk \in DOMAIN events
    /\ events[out.pk].organizer # out.user
    /\ HasActive(out.user, out.pk)

\* C20: a create by an authenticated user with a valid body is answered 201
\* and adds exactly one event, whose organizer is the caller whatever
\* organizer the body names; an invalid body is answered 400, an
\* unauthenticated caller 401, and both add no event.
C20_CreateSetsOrganizer ==
    [][out'.op = "create" =>
         IF out'.user = AnonymousUser
         THEN /\ out'.status = HTTP_401_UNAUTHORIZED
              /\ events' = events /\ regs' = regs
         ELSE LET b     == out'.body
                  valid == /\ "date" \in DOMAIN b /\ b.date >= now
                           /\ "max_attendees" \in DOMAIN b =>
                                 \/ b.max_attendees = None
                                 \/ b.max_attendees >= 1
              IN  IF valid
                  THEN /\ out'.status = HTTP_201_CREATED
                       /\ out'.pk \notin DOMAIN events
                       /\ DOMAIN events' = DOMAIN events \cup {out'.pk}
                       /\ events'[out'.pk].organizer = out'.user
                       /\ events'[out'.pk].date = b.date
                       /\ \A pk \in DOMAIN events : events'[pk] = events[pk]
                       /\ regs' = regs
                  ELSE /\ out'.status = HTTP_400_BAD_REQUEST
                       /\ events' = events /\ regs' = regs
      ]_vars

\* an event was created with a body naming another user as organizer, and
\* its organizer is the caller
C20_Witness ==
    /\ out.op = "create" /\ out.status = HTTP_201_CREATED
    /\ "organizer" \in DOMAIN out.body
    /\ out.body.organizer # out.user
    /\ out.pk \in DOMAIN events
    /\ events[out.pk].organizer = out.user

\* C23: register, unregister and attendees answer 401 to an unauthenticated
\* caller and 404 to an authenticated caller naming an event that does not
\* exist; the handler is entered in neither case, so no registration or
\* event changes and nothing is enqueued.
C23_UnauthenticatedOrUnknown ==
    [][\A p \in Procs :
          LET same == regs' = regs /\ events' = events /\ queue' = queue
          IN  /\ (req[p].pc = "idle" /\ req'[p].pc # "idle") =>
                    /\ req'[p].user \in Users
                    /\ req'[p].pk \in DOMAIN events
                    /\ req'[p].pc = req'[p].op /\ req'[p].op \in Ops
                    /\ same
              /\ (req[p].pc = "idle" /\ out'.proc = p) =>
                    /\ req' = req /\ same /\ out'.data = {}
                    /\ out'.op \in Ops
                    /\ IF out'.user = AnonymousUser
                       THEN out'.status = HTTP_401_UNAUTHORIZED
                       ELSE /\ out'.pk \notin DOMAIN events
                            /\ out'.status = HTTP_404_NOT_FOUND
              /\ (out'.proc = p /\ out'.user = AnonymousUser) =>
                    req[p].pc = "idle"
              /\ (out'.proc = p /\ out'.status = HTTP_404_NOT_FOUND) =>
                    req[p].pc = "idle"
      ]_vars

\* an unregister of a user holding a registration, on an event id that does
\* not exist, was answered 404
C23_Witness ==
    /\ out.op = "unregister" /\ out.status = HTTP_404_NOT_FOUND
    /\ out.pk \notin DOMAIN events
    /\ \E r \in regs : r.user = out.user /\ ~r.is_cancelled

\* C24: no step changes the registered_at (or the user or event) of a row
\* that is already in the table, in particular not cancel and not the
\* reactivation; a row that enters the table has registered_at = now.
C24_RegisteredAtImmutable ==
    [][/\ \A old \in regs : \E r \in regs' :
             /\ r.id = old.id
             /\ r.registered_at = old.registered_at
             /\ r.user = old.user /\ r.event = old.event
       /\ \A r \in regs' :
             (\A old \in regs : old.id # r.id) => r.registered_at = now
      ]_vars

\* a row registered before the clock started was cancelled and reactivated,
\* and the 201 returns it with its first registered_at
C24_Witness ==
    /\ out.op = "register" /\ out.status = HTTP_201_CREATED
    /\ now = MaxTime
    /\ \E r \in out.data : r \in regs /\ r.registered_at = 0

\* C25: in every state reachable through register and unregister, under any
\* interleaving, a registration row has cancelled_at null exactly when it
\* is not cancelled.
C25_CancelledAtIffCancelled ==
    \A r \in regs : (r.cancelled_at = None) <=> (r.is_cancelled = FALSE)

\* an unregister has cancelled the row that a concurrent register of the
\* same user is about to reactivate
C25_Witness ==
    \E p, q \in Procs :
        /\ req[p].pc = "unregister_delay" /\ req[q].pc = "reactivate"
        /\ req[p].registration.id = req[q].registration.id
        /\ \E r \in regs : /\ r.id = req[p].registration.id
                           /\ r.is_cancelled /\ r.cancelled_at >= 1

\* C26: a register by a user whose registration is cancelled, for an active,
\* future event that is full when the check runs, is answered 400 EventFull
\* and the row stays cancelled.
C26_ReactivationChecksCapacity ==
    [][\A p \in Procs :
          LET u  == req[p].user
              pk == req[p].pk
              ev == req[p].event
          IN  (/\ Steps(p) /\ req[p].pc = "register"
               /\ HasCancelled(u, pk)
               /\ ev.date >= now /\ ev.is_active
               /\ ev.max_attendees # None
               /\ attendees_count(pk) >= ev.max_attendees) =>
                  /\ Answers(p)
                  /\ out'.status = HTTP_400_BAD_REQUEST
                  /\ out'.detail = EventFull
                  /\ regs' = regs /\ queue' = queue
                  /\ \E r \in regs' :
                         r.user = u /\ r.event = pk /\ r.is_cancelled
      ]_vars

\* EventFull was answered to a user whose registration is cancelled
C26_Witness ==
    /\ out.op = "register" /\ out.detail = EventFull
    /\ HasCancelled(out.user, out.pk)
    /\ Full(out.pk)

\* C21: every registration row references an existing event and an existing
\* user in every reachable state: a successful delete of an event removes
\* exactly the registrations of that event, and no step of register or
\* unregister removes a row.
C21_CascadeKeepsReferences ==
    /\ [](\A r \in regs : r.event \in DOMAIN events /\ r.user \in Users)
    /\ [][/\ (out'.op = "destroy" /\ out'.status = HTTP_204_NO_CONTENT) =>
               /\ out'.pk \in DOMAIN events
               /\ out'.pk \notin DOMAIN events'
               /\ regs' = {r \in regs : r.event # out'.pk}
          /\ out'.op # "destroy" =>
               /\ events' = events
               /\ {r.id : r \in regs} \subseteq {r.id : r \in regs'}
         ]_vars

\* an event that had registrations was deleted with them, and the INSERT of
\* a register that was running for it was refused
C21_Witness ==
    /\ req[1].pc = "reget"
    /\ req[1].pk \notin DOMAIN events
    /\ nextId > 1
    /\ regs = {}

\* C22: the max_attendees of every event is null or at least 1 in every
\* reachable state: a create, update or partial update by a caller allowed
\* to make it, with max_attendees below 1, is answered 400 and changes no
\* event.
C22_MaxAttendeesAtLeastOne ==
    /\ [](\A pk \in DOMAIN events :
             events[pk].max_attendees = None \/ events[pk].max_attendees >= 1)
    /\ [][(/\ out'.op \in {"create", "update", "partial_update"}
           /\ "max_attendees" \in DOMAIN out'.body
           /\ out'.body.max_attendees # None
           /\ out'.body.max_attendees < 1) =>
              /\ out'.status = HTTP_400_BAD_REQUEST
              /\ MinValue \in out'.data
              /\ events' = events /\ regs' = regs
         ]_vars

\* a partial update of max_attendees to 0 by the organizer was answered 400
C22_Witness ==
    /\ out.op = "partial_update" /\ out.status = HTTP_400_BAD_REQUEST
    /\ out.pk \in DOMAIN events
    /\ events[out.pk].organizer = out.user
    /\ out.body = [max_attendees |-> 0]
    /\ out.data = {MinValue}

\* C27: after an update or partial update, an event with max_attendees set
\* has at most max_attendees non-cancelled registrations.
C27_UpdateKeepsCapacity ==
    [][out'.op \in {"update", "partial_update"} =>
          \A pk \in DOMAIN events' :
              events'[pk].max_attendees # None =>
                  Cardinality({r \in regs' : /\ r.event = pk
                                             /\ r.is_cancelled = FALSE})
                      <= events'[pk].max_attendees
      ]_vars

\* the answers recorded with a success status
C28_Successes == {i \in DOMAIN hist : hist[i].status \in {HTTP_200_OK,
                                                          HTTP_201_CREATED}}

\* C28: of two unregister calls by one user for one event holding one
\* non-cancelled registration, or two register calls reactivating one
\* cancelled row, at most one is answered with success and at most one
\* notification is enqueued.
C28_AtMostOneSuccess ==
    /\ Cardinality(C28_Successes) <= 1
    /\ Len(queue) <= 1

\* C29: a notification task, whenever it runs, returns one of its result
\* strings (not found when the row is gone, an error string when the mail
\* fails) and changes no event, no registration and no request.
C29_TaskReturnsAndChangesNothing ==
    [][(queue # <<>> /\ queue' = Tail(queue)) =>
          /\ regs' = regs /\ events' = events /\ req' = req
          /\ out'.op = Head(queue).task
          /\ out'.status = None
          /\ out'.detail \in {TaskSent, TaskNotFound, TaskError}
          /\ (out'.detail = TaskNotFound) <=>
                 (\A r \in regs : r.id # Head(queue).registration_id)
      ]_vars

\* the cancellation task of a row deleted by cascade ran and returned
\* not found
C29_Witness ==
    /\ out.op = "send_cancellation_email" /\ out.detail = TaskNotFound
    /\ DOMAIN events = {}
    /\ regs = {}

====
